---------------------------- MODULE Spec2Model ----------------------------
(***************************************************************************)
(* Model of src/app2.py: the weighted risk/safety scoring dashboard.       *)
(*                                                                         *)
(* One Streamlit session is a state machine: the widget state (15 weight   *)
(* sliders, the sort checkbox, the factor selectbox) and st.session_state  *)
(* persist between reruns; every interaction reruns the whole script,      *)
(* which rewrites the weight mappings from the sliders, recomputes the     *)
(* three derived columns of gdf and rebuilds the two ranking tables.       *)
(*                                                                         *)
(* Python floats are IEEE-754 binary64.  They are modelled bit-exactly: a  *)
(* float is a record [neg, ex, hi, lo] standing for                        *)
(*        (-1)^neg * (hi * 2^26 + lo) * 2^ex                               *)
(* with a 53-bit significand (2^26 <= hi < 2^27, 0 <= lo < 2^26), or zero. *)
(* Every operation rounds to nearest, ties to even, as the hardware does.  *)
(***************************************************************************)
EXTENDS Integers, Sequences, FiniteSets, TLC

VARIABLES
  load_data_cache,     \* what st.cache_data holds for load_data(): the merged table
  gdf,                 \* the district table of this rerun, derived columns included
  slider_risk,         \* widget state of the risk sliders, in steps of 0.01
  slider_safety,       \* widget state of the safety sliders, in steps of 0.01
  risk_weights,        \* st.session_state.risk_weights: factor -> float
  safety_weights,      \* st.session_state.safety_weights: factor -> float
  total_risk_weight,   \* the sum of the risk weights of the last rerun
  total_safety_weight, \* the sum of the safety weights of the last rerun
  norm_risk_weights,   \* the normalized risk weights of the last rerun
  norm_safety_weights, \* the normalized safety weights of the last rerun
  sort_enabled,        \* the checkbox of the net-score ranking
  selected_column,     \* the selectbox of the single-factor tab
  display_df,          \* the rows shown by the net-score ranking (tab 1)
  factor_df,           \* the rows shown by the single-factor ranking (tab 2)
  files,               \* the input files in the working directory of the process
  page,                \* what the last run of the script put on the page
  correlation,         \* what the metric of the correlation panel shows
  other_session        \* a second session of the process: its own copy of the above

vars == <<load_data_cache, gdf, slider_risk, slider_safety, risk_weights, safety_weights,
          total_risk_weight, total_safety_weight, norm_risk_weights, norm_safety_weights, sort_enabled,
          selected_column, display_df, factor_df, files, page,
          correlation, other_session>>

(***************************************************************************)
(* binary64 arithmetic                                                     *)
(***************************************************************************)
\* one limb of a significand: 26 bits
Base == 2^26

\* powers of two that fit a 32-bit integer
P2 == [n \in 0..30 |-> 2^n]

\* number of significant bits of x, 0 <= x < 2^31
RECURSIVE BitLen(_)
BitLen(x) == IF x = 0 THEN 0 ELSE 1 + BitLen(x \div 2)

\* a wide natural is <<h, l>> = h * Base + l, l < Base, h < 2^31
WNorm(h, l) == <<h + (l \div Base), l % Base>>

WBitLen(w) == IF w[1] > 0 THEN 26 + BitLen(w[1]) ELSE BitLen(w[2])

WGE(a, b) == a[1] > b[1] \/ (a[1] = b[1] /\ a[2] >= b[2])

WAdd(a, b) == WNorm(a[1] + b[1], a[2] + b[2])

\* a - b, for a >= b
WSub(a, b) ==
  IF a[2] >= b[2] THEN <<a[1] - b[1], a[2] - b[2]>>
                  ELSE <<a[1] - b[1] - 1, a[2] + Base - b[2]>>

\* w * k for a small k (the product must stay below 2^57)
WMulSmall(w, k) == WNorm(w[1] * k, w[2] * k)

\* 2 * w + bit
WDbl(w, bit) == WNorm(2 * w[1], 2 * w[2] + bit)

\* <<h, l, st>>: w shifted right by d bits; st = 1 iff a nonzero bit was lost
WShr(w, d) ==
  IF d = 0 THEN <<w[1], w[2], 0>>
  ELSE IF d < 26 THEN
    <<w[1] \div P2[d],
      (w[2] \div P2[d]) + (w[1] % P2[d]) * P2[26 - d],
      IF w[2] % P2[d] # 0 THEN 1 ELSE 0>>
  ELSE IF d <= 56 THEN
    LET v == w[1] \div P2[d - 26]
    IN  <<v \div Base, v % Base,
          IF w[2] # 0 \/ w[1] % P2[d - 26] # 0 THEN 1 ELSE 0>>
  ELSE <<0, 0, IF w[1] # 0 \/ w[2] # 0 THEN 1 ELSE 0>>

\* w shifted left by s bits (the result must stay below 2^57)
RECURSIVE WShl(_, _)
WShl(w, s) ==
  IF s = 0 THEN w
  ELSE IF s <= 26 THEN
    <<w[1] * P2[s] + (w[2] \div P2[26 - s]), (w[2] % P2[26 - s]) * P2[s]>>
  ELSE WShl(<<w[2], 0>>, s - 26)

FZero == [neg |-> FALSE, ex |-> 0, hi |-> 0, lo |-> 0]

IsZero(a) == a.hi = 0 /\ a.lo = 0

\* what a float division by zero yields: Python raises ZeroDivisionError and
\* the script stops; every operation on it yields it again
ZeroDivisionError == [neg |-> FALSE, ex |-> 0, hi |-> -1, lo |-> 0]

Raised(a) == a.hi < 0

\* the float of sign neg, significand m and exponent e
Pack(m, e, neg) == [neg |-> neg, ex |-> e, hi |-> m[1], lo |-> m[2]]

\* a significand that rounding carried up to 2^53 is renormalized
Carry(r, e, neg) ==
  IF r[1] = P2[27] THEN Pack(<<P2[26], 0>>, e + 1, neg) ELSE Pack(r, e, neg)

\* q the 53 kept bits, rem the bits cut off, half the weight of a tie
RoundCut(q, rem, half, e, neg) ==
  IF rem > half \/ (rem = half /\ q[2] % 2 = 1)
  THEN Carry(WAdd(<<q[1], q[2]>>, <<0, 1>>), e, neg)
  ELSE Pack(q, e, neg)

RoundLen(n, e, neg, len) ==
  IF len <= 53
  THEN Pack(WShl(n, 53 - len), e - (53 - len), neg)
  ELSE RoundCut(WShr(n, len - 53), n[2] % P2[len - 53], P2[len - 54],
                e + (len - 53), neg)

\* the binary64 nearest to n * 2^e (ties to even), n a wide natural > 0 whose
\* lowest bit may be a sticky bit when n has at least 55 bits
FRound(n, e, neg) == RoundLen(n, e, neg, WBitLen(n))

\* float(k) for a small natural k
FromInt(k) == IF k = 0 THEN FZero ELSE FRound(<<0, k>>, 0, FALSE)

\* n steps of restoring division of the remainder <<rh, rl>> by <<bh, bl>>:
\* <<rh', rl', q>>, q the n quotient bits (n <= 29)
RECURSIVE DivBits(_, _, _, _, _, _)
RECURSIVE DivStep(_, _, _, _, _, _)
DivBits(n, rh, rl, q, bh, bl) ==
  IF n = 0 THEN <<rh, rl, q>>
  ELSE IF 2 * rl >= Base
       THEN DivStep(n, 2 * rh + 1, 2 * rl - Base, q, bh, bl)
       ELSE DivStep(n, 2 * rh, 2 * rl, q, bh, bl)

\* <<h, l>> the doubled remainder: subtract the divisor if it fits
DivStep(n, h, l, q, bh, bl) ==
  IF h > bh \/ (h = bh /\ l >= bl)
  THEN IF l >= bl
       THEN DivBits(n - 1, h - bh, l - bl, 2 * q + 1, bh, bl)
       ELSE DivBits(n - 1, h - bh - 1, l - bl + Base, 2 * q + 1, bh, bl)
  ELSE DivBits(n - 1, h, l, 2 * q, bh, bl)

\* the quotient is q1 * 2^27 + s2[3]; twice that, plus a sticky bit for the
\* remainder <<s2[1], s2[2]>>, rounded
DivRound(a, b, q1, s2) ==
  FRound(WNorm(4 * q1, 2 * s2[3] + (IF s2[1] = 0 /\ s2[2] = 0 THEN 0 ELSE 1)),
         a.ex - b.ex - 56, a.neg # b.neg)

DivLow(a, b, s1) == DivRound(a, b, s1[3], DivBits(27, s1[1], s1[2], 0, b.hi, b.lo))

DivHigh(a, b, r0, q0) == DivLow(a, b, DivBits(28, r0[1], r0[2], q0, b.hi, b.lo))

\* a / b in binary64: 1 + 55 quotient bits and a sticky bit, rounded
FDiv(a, b) ==
  IF Raised(a) THEN a
  ELSE IF Raised(b) THEN b
  ELSE IF IsZero(b) THEN ZeroDivisionError
  ELSE IF IsZero(a) THEN FZero
  ELSE IF WGE(<<a.hi, a.lo>>, <<b.hi, b.lo>>)
       THEN DivHigh(a, b, WSub(<<a.hi, a.lo>>, <<b.hi, b.lo>>), 1)
       ELSE DivHigh(a, b, <<a.hi, a.lo>>, 0)

\* |a| >= |b|
MagGE(a, b) ==
  IF IsZero(b) THEN TRUE
  ELSE IF IsZero(a) THEN FALSE
  ELSE a.ex > b.ex \/ (a.ex = b.ex /\ WGE(<<a.hi, a.lo>>, <<b.hi, b.lo>>))

\* xs, ys the significands with three guard bits, ys aligned to xs and
\* carrying the sticky bit of what the alignment lost
AddAligned(x, xs, ys) ==
  FRound(WDbl(WAdd(xs, <<ys[1], ys[2]>>), ys[3]), x.ex - 3, x.neg)

SubAligned(x, xs, ys) ==
  FRound(WDbl(WSub(WSub(xs, <<ys[1], ys[2]>>), <<0, ys[3]>>), ys[3]), x.ex - 3, x.neg)

\* x + y for x, y nonzero of one sign, x.ex >= y.ex
MagAdd(x, y) ==
  AddAligned(x, WMulSmall(<<x.hi, x.lo>>, 4),
             WShr(WMulSmall(<<y.hi, y.lo>>, 4), x.ex - y.ex))

\* x - y in magnitude, with the sign of x, for |x| > |y| > 0
MagSub(x, y) ==
  SubAligned(x, WMulSmall(<<x.hi, x.lo>>, 4),
             WShr(WMulSmall(<<y.hi, y.lo>>, 4), x.ex - y.ex))

\* x + y for |x| >= |y| > 0, x # -y
AddOrdered(x, y) == IF x.neg = y.neg THEN MagAdd(x, y) ELSE MagSub(x, y)

AddSwap(a, b, ge) == AddOrdered(IF ge THEN a ELSE b, IF ge THEN b ELSE a)

\* a + b in binary64
FAdd(a, b) ==
  IF Raised(a) THEN a
  ELSE IF Raised(b) THEN b
  ELSE IF IsZero(a) THEN b
  ELSE IF IsZero(b) THEN a
  ELSE IF a.neg # b.neg /\ a.ex = b.ex /\ a.hi = b.hi /\ a.lo = b.lo THEN FZero
  ELSE AddSwap(a, b, MagGE(a, b))

FNeg(a) == IF IsZero(a) THEN a ELSE [a EXCEPT !.neg = ~a.neg]

\* a - b in binary64
FSub(a, b) == FAdd(a, FNeg(b))

\* a * k in binary64, k a small natural (an exactly representable value)
FMulInt(a, k) ==
  IF Raised(a) THEN a
  ELSE IF IsZero(a) \/ k = 0 THEN FZero
  ELSE FRound(WMulSmall(<<a.hi, a.lo>>, k), a.ex, a.neg)

\* a < b
FLess(a, b) ==
  IF a.neg /\ ~b.neg THEN TRUE
  ELSE IF ~a.neg /\ b.neg THEN FALSE
  ELSE IF a.neg THEN ~MagGE(b, a)
  ELSE ~MagGE(a, b)

\* a > 0
FPos(a) == ~IsZero(a) /\ ~a.neg

\* the function f with every value computed: f itself, held as a table so
\* that a value used twice is not computed twice
RECURSIVE Table(_, _)
Table(f, D) ==
  IF D = {} THEN << >>
  ELSE LET x == CHOOSE y \in D : TRUE
       IN  (x :> f[x]) @@ Table(f, D \ {x})

Eval(f) == Table(f, DOMAIN f)

(***************************************************************************)
(* The program's constants                                                 *)
(***************************************************************************)
\* the factor columns, in the order of the source lists; the Korean column
\* names are transliterated:
\*   nightlife "유흥업소 수", elementary "초등학교 수", secondary "중,고등학교 수",
\*   pubs "요리 주점", population "등록인구", female "여성비율",
\*   foreigner "외국인비율"
risk_factors ==
  <<"nightlife", "elementary", "secondary", "pubs", "population", "female",
    "foreigner">>

\*   police "치안기관", child_cctv "어린이용 CCTV 수", bell "안전비상벨 수",
\*   other_cctv "기타 CCTV 수", facility_cctv "시설물 CCTV 수",
\*   streetlight "가로등 수", seclight "보안등 수", crime_cctv "생활방범 CCTV 수"
safety_factors ==
  <<"police", "child_cctv", "bell", "other_cctv", "facility_cctv",
    "streetlight", "seclight", "crime_cctv">>

Range(s) == {s[i] : i \in 1..Len(s)}

\* the sliders run from 0.0 to 0.5 in steps of 0.01: positions 0..50
SliderMin == 0
SliderMax == 50
StepsPerUnit == 100

\* the initial weights, in slider steps (0.05 is step 5)
initial_risk_weights ==
  [f \in Range(risk_factors) |->
     CASE f = "nightlife"  -> 5
       [] f = "elementary" -> 4
       [] f = "secondary"  -> 3
       [] f = "pubs"       -> 2
       [] f = "population" -> 50
       [] f = "female"     -> 10
       [] f = "foreigner"  -> 5]

initial_safety_weights ==
  [f \in Range(safety_factors) |->
     CASE f = "police"        -> 25
       [] f = "child_cctv"    -> 20
       [] f = "bell"          -> 20
       [] f = "other_cctv"    -> 5
       [] f = "facility_cctv" -> 10
       [] f = "streetlight"   -> 6
       [] f = "seclight"      -> 6
       [] f = "crime_cctv"    -> 40]

\* a slider that steps by 0.1 instead of 0.01
SliderValueTenth(k) == FDiv(FromInt(k), FromInt(10))

\* the float a slider at position k returns: the binary64 nearest to k / 100
SliderValue(k) == FDiv(FromInt(k), FromInt(StepsPerUnit))

\* the options of the selectbox
selectable_columns == safety_factors \o risk_factors

(***************************************************************************)
(* The input files and load_data                                           *)
(***************************************************************************)
\* bounds of the input files: the number of districts and the largest
\* factor value of a district
NDistricts == 3
MaxVal == 3

\* the label of the aggregate row of the CSV ('소계')
SubtotalLabel == "subtotal"

DistrictNames == <<"Dongin", "Samdeok", "Seongnae", "Daesin", "Namsan", "Bisan">>

\* the position of a factor among the columns
RECURSIVE IndexIn(_, _)
IndexIn(s, x) == IF Head(s) = x THEN 1 ELSE 1 + IndexIn(Tail(s), x)

ColIndex(f) == IndexIn(selectable_columns, f)

\* a cell of the CSV without a value, as pandas reads it
NaN == -1

\* a fillna that leaves the cell as it is
fillna_skipped(v) == v

\* .fillna(0) on one cell
fillna(v) == IF v = NaN THEN 0 ELSE v

\* the rows of daegu_crime_data.csv: one row per district and the aggregate
\* row last.  CsvVaried: the districts differ; CsvTied: the second and the
\* third district are alike.
CsvRow(name, v, crime) == [name |-> name, val |-> v, crime |-> crime]

CsvVaried ==
  [d \in 1..NDistricts |->
     CsvRow(DistrictNames[d],
            [f \in Range(selectable_columns) |-> (d * ColIndex(f)) % (MaxVal + 1)],
            d)]
  \o <<CsvRow(SubtotalLabel, [f \in Range(selectable_columns) |-> MaxVal], NDistricts)>>

CsvTied ==
  [d \in 1..NDistricts |->
     CsvRow(DistrictNames[d],
            [f \in Range(selectable_columns) |->
               ((IF d = 3 THEN 2 ELSE d) * ColIndex(f)) % (MaxVal + 1)],
            IF d = 3 THEN 2 ELSE d)]
  \o <<CsvRow(SubtotalLabel, [f \in Range(selectable_columns) |-> MaxVal], NDistricts)>>

CsvFiles == {CsvVaried, CsvTied}

\* the districts alike in every factor but the first: their scores are equal
\* when the first factor has weight 0
CsvAlike ==
  [i \in 1..Len(CsvVaried) |->
     [CsvVaried[i] EXCEPT !.val = [f \in DOMAIN @ |-> IF ColIndex(f) = 1 THEN @[f] ELSE 1]]]

\* CsvVaried with the same crime count in every district
CsvFlatCrime ==
  [i \in 1..Len(CsvVaried) |-> [CsvVaried[i] EXCEPT !.crime = 1]]

\* CsvVaried with some cells left empty
CsvMissing ==
  [i \in 1..Len(CsvVaried) |->
     [CsvVaried[i] EXCEPT !.val = [f \in DOMAIN @ |->
                                     IF (i + ColIndex(f)) % 3 = 0 THEN NaN ELSE @[f]]]]

\* CsvVaried with the second row carrying the name of the first
CsvRepeated ==
  [i \in 1..Len(CsvVaried) |->
     IF i = 2 THEN [CsvVaried[i] EXCEPT !.name = DistrictNames[1]] ELSE CsvVaried[i]]

\* daegu_map.geojson: one feature per district; adm_nm is a name of several
\* words, the last of which is the district
MapFile == [d \in 1..NDistricts |-> [adm_nm |-> <<"Daegu", "Jung-gu", DistrictNames[d]>>]]

\* a map in which the second feature lies in another borough and carries the
\* district name of the first
MapSharedKey ==
  [d \in 1..NDistricts |->
     IF d = 2 THEN [adm_nm |-> <<"Daegu", "Dong-gu", DistrictNames[1]>>] ELSE MapFile[d]]

\* a map whose first feature has the aggregate label as its last word
MapSubtotal ==
  [d \in 1..NDistricts |->
     IF d = 1 THEN [adm_nm |-> <<"Daegu", SubtotalLabel>>] ELSE MapFile[d]]

\* adm_nm.str.split().str[-1]
LastToken(words) == words[Len(words)]

\* left.merge(right, left_on = key, right_on = name, how = 'inner'): the rows of
\* left in order, each paired with every row of right of the same key
RECURSIVE Merge(_, _)
Merge(left, right) ==
  IF left = << >> THEN << >>
  ELSE LET l == Head(left)
           m == SelectSeq(right, LAMBDA r : r.name = l.key)
       IN  [i \in 1..Len(m) |->
              [adm_nm |-> l.adm_nm, key |-> l.key, name |-> m[i].name,
               val |-> m[i].val, crime |-> m[i].crime]]
           \o Merge(Tail(left), right)

\* pd.read_csv(...).fillna(0)
read_csv(csv) ==
  [i \in 1..Len(csv) |->
     [name |-> csv[i].name,
      val |-> [f \in DOMAIN csv[i].val |-> fillna(csv[i].val[f])],
      crime |-> fillna(csv[i].crime)]]

\* the frame of the CSV and the map merged without dropping the aggregate row
load_data_unfiltered(csv, map) ==
  Merge([i \in 1..Len(map) |->
           [adm_nm |-> map[i].adm_nm, key |-> LastToken(map[i].adm_nm)]],
        read_csv(csv))

load_data(csv, map) ==
  LET crime_data == SelectSeq(read_csv(csv), LAMBDA r : r.name # SubtotalLabel)
      daegu_map  == [i \in 1..Len(map) |->
                       [adm_nm |-> map[i].adm_nm, key |-> LastToken(map[i].adm_nm)]]
  IN  Merge(daegu_map, crime_data)

(***************************************************************************)
(* The files of the process, the loaders and the page                      *)
(***************************************************************************)
\* the columns of the CSV: the district name, the crime count, the factors
CsvColumns == {"name", "crime"} \cup Range(selectable_columns)

MapColumns == {"adm_nm", "geometry"}

\* a file of the working directory: present or not, its columns, its rows
File(columns, rows) == [exists |-> TRUE, columns |-> columns, rows |-> rows]

Absent == [exists |-> FALSE, columns |-> {}, rows |-> << >>]

\* the CSV files considered: well-formed ones, an absent one, one without the
\* district-name column, one without a factor column
CsvInputs ==
  { File(CsvColumns, CsvVaried), File(CsvColumns, CsvTied), File(CsvColumns, CsvMissing),
    File(CsvColumns, CsvRepeated), Absent,
    File(CsvColumns \ {"name"}, CsvVaried), File(CsvColumns \ {"police"}, CsvVaried) }

\* the map files considered
MapInputs ==
  { File(MapColumns, MapFile), File(MapColumns, MapSharedKey), File(MapColumns, MapSubtotal),
    Absent, File(MapColumns \ {"adm_nm"}, MapFile) }

\* the working directories considered: every CSV with the plain map, every
\* map with the plain CSV, the trend workbook and the reference CSV present
\* or not
FileSystems ==
  { fs \in [csv : CsvInputs, map : MapInputs,
             trend : {File({}, << >>), Absent}, reference : {File({}, << >>), Absent}] :
      fs.csv = File(CsvColumns, CsvVaried) \/ fs.map = File(MapColumns, MapFile) }

\* the st.error messages of the script
LoadDataFileError  == "load_data: file not found"
LoadDataKeyError   == "load_data: no adm_nm column"
TrendFileError     == "load_trend_data: file not found"
DashboardError     == "dashboard data unavailable"
TrendError         == "trend data unavailable"
ReferenceFileError == "load_correlation_data: file not found"

\* what gpd.read_file raises for a path that does not exist: the error of the
\* I/O engine of the build (pyogrio or fiona); neither is a FileNotFoundError
ReadFileErrors == {"DataSourceError", "DriverError"}

\* the ways a call of a loader ends
Returns(table) == [raised |-> "none", errors |-> {}, loaded |-> TRUE, table |-> Eval(table)]

ReturnsNone(message) == [raised |-> "none", errors |-> {message}, loaded |-> FALSE, table |-> << >>]

Raises(exception) == [raised |-> exception, errors |-> {}, loaded |-> FALSE, table |-> << >>]

\* load_data() with its try ... except FileNotFoundError: the outcomes of a call
try_load_data(csv, map) ==
  IF ~csv.exists THEN {ReturnsNone(LoadDataFileError)}
  ELSE IF "name" \notin csv.columns THEN {Raises("KeyError")}
  ELSE IF ~map.exists THEN {Raises(e) : e \in ReadFileErrors}
  ELSE IF "adm_nm" \notin map.columns THEN {ReturnsNone(LoadDataKeyError)}
  ELSE {Returns(load_data(csv.rows, map.rows))}

\* load_trend_data(): the error it shows
load_trend_data(trend) == IF trend.exists THEN {} ELSE {TrendFileError}

\* the page of a run that an uncaught exception ended: what was written
\* before stays, no view is rendered
Halted(exception, errors) ==
  [raised |-> exception, errors |-> errors, district |-> FALSE,
   overview |-> "none", reference |-> "none"]

\* the page of a run that reached the last line
Rendered(fs, errors, district) ==
  [raised |-> "none",
   errors |-> errors \cup (IF district THEN {} ELSE {DashboardError})
                     \cup (IF fs.trend.exists THEN {} ELSE {TrendError})
                     \cup (IF fs.reference.exists THEN {} ELSE {ReferenceFileError}),
   district |-> district,
   overview |-> IF fs.trend.exists THEN "charts" ELSE "error",
   reference |-> IF fs.reference.exists THEN "table" ELSE "error"]

\* the columns the district tabs read from the table
UsedColumns == Range(selectable_columns) \cup {"crime"}

\* the page of one run of the script, given how load_data() ended
Page(fs, r) ==
  IF r.raised # "none" THEN Halted(r.raised, r.errors)
  ELSE IF ~r.loaded \/ r.table = << >>
    THEN Rendered(fs, r.errors \cup load_trend_data(fs.trend), FALSE)
  ELSE IF ~(UsedColumns \subseteq fs.csv.columns)
    THEN Halted("KeyError", r.errors \cup load_trend_data(fs.trend))
  ELSE Rendered(fs, r.errors \cup load_trend_data(fs.trend), TRUE)

(***************************************************************************)
(* Tab 1: normalization and scores (one rerun of the script)               *)
(***************************************************************************)
\* sum(...) over floats, left to right, starting from 0
RECURSIVE SumFrom(_, _, _)
SumFrom(xs, i, acc) ==
  IF i > Len(xs) \/ Raised(acc) THEN acc
  ELSE SumFrom(xs, i + 1, FAdd(acc, xs[i]))

FSum(xs) == SumFrom(xs, 1, FZero)

\* the number of weights taken for their sum
WeightTotalCount(weights, factors) == FromInt(Len(factors))

\* sum(weights.values()): the values in the order of the mapping's keys
WeightTotal(weights, factors) ==
  FSum(Eval([i \in 1..Len(factors) |-> weights[factors[i]]]))

\* st.session_state, as far as the script uses it
SessionState == [risk_weights |-> risk_weights, safety_weights |-> safety_weights]

\* one denominator shared by both mappings
SumAllWeights(session_state) ==
  FAdd(WeightTotal(session_state.risk_weights, risk_factors),
       WeightTotal(session_state.safety_weights, safety_factors))

\* sum(st.session_state.risk_weights.values())
SumRiskWeights(session_state) ==
  WeightTotal(session_state.risk_weights, risk_factors)

\* sum(st.session_state.safety_weights.values())
SumSafetyWeights(session_state) ==
  WeightTotal(session_state.safety_weights, safety_factors)

\* the raw weights passed on without the division
NormalizeRaw(weights, total) == weights

\* the division without its guard
NormalizeUnguarded(weights, total) ==
  [f \in DOMAIN weights |-> FDiv(weights[f], total)]

\* {k: v / total if total > 0 else 0 for k, v in weights.items()}
Normalize(weights, total) ==
  Eval([f \in DOMAIN weights |-> IF FPos(total) THEN FDiv(weights[f], total) ELSE FZero])

\* the float NaN; every operation on it yields it again
FNaN == [neg |-> FALSE, ex |-> 0, hi |-> -2, lo |-> 0]

\* cell * weight, the cell a small natural or NaN
Times(w, v) == IF v = NaN THEN FNaN ELSE FMulInt(w, v)

\* sum(gdf[factor].fillna(0) * weight for factor, weight in norm.items()), for one row
Aggregate(row, norm, factors) ==
  FSum(Eval([i \in 1..Len(factors) |-> Times(norm[factors[i]], fillna(row.val[factors[i]]))]))

\* the two aggregates added instead of subtracted
NetScoreSum(total_risk, total_safety) == FAdd(total_risk, total_safety)

\* gdf['순위험도'] = gdf['총위험도'] - gdf['총안전도']
NetScore(total_risk, total_safety) == FSub(total_risk, total_safety)

\* the three derived columns assigned to a fresh copy of the cached table
WithScores(row, total_risk, total_safety) ==
  [name |-> row.name, key |-> row.key, adm_nm |-> row.adm_nm,
   val |-> row.val, crime |-> row.crime,
   total_risk |-> total_risk, total_safety |-> total_safety,
   net_score |-> NetScore(total_risk, total_safety)]

ScoreRow(row, norm_risk, norm_safety) ==
  WithScores(row, Aggregate(row, norm_risk, risk_factors),
                  Aggregate(row, norm_safety, safety_factors))

\* the scores computed from the normalized weights of the rerun before
ScoreTableStale(table, norm_risk, norm_safety) ==
  Eval([i \in 1..Len(table) |-> ScoreRow(table[i], norm_risk_weights, norm_safety_weights)])

ScoreTable(table, norm_risk, norm_safety) ==
  Eval([i \in 1..Len(table) |-> ScoreRow(table[i], norm_risk, norm_safety)])

\* np.mean of a column: the sum of its cells divided by their number
np_mean(xs) == FDiv(FSum(xs), FromInt(Len(xs)))

\* np.cov centres a column on its mean; its variance is 0 exactly when every
\* centred cell is 0
ZeroVariance(xs) == \A i \in DOMAIN xs : xs[i] = np_mean(xs)

\* gdf['순위험도'].corr(gdf['범죄발생수(유동인구기준)']): np.corrcoef divides the
\* covariance by the two standard deviations, which is 0 / 0 = NaN when one
\* of them is 0 and a number otherwise
corr(table) ==
  IF ZeroVariance([i \in 1..Len(table) |-> table[i].net_score])
       \/ ZeroVariance([i \in 1..Len(table) |-> FromInt(table[i].crime)])
    THEN "nan"
    ELSE "number"

\* the selected column overwritten with 0
clear_selected(table, column) ==
  Eval([i \in 1..Len(table) |-> [table[i] EXCEPT !.val[column] = 0]])

\* gdf[selected_column] = gdf[selected_column].fillna(0)
fill_selected(table, column) ==
  Eval([i \in 1..Len(table) |-> [table[i] EXCEPT !.val[column] = fillna(@)]])

(***************************************************************************)
(* The ranking tables                                                      *)
(***************************************************************************)
Perms(n) == {p \in [1..n -> 1..n] : \A i, j \in 1..n : p[i] = p[j] => i = j}

\* the outcomes of sort_values(by = column, ascending = False) on n rows, lt
\* the pairs <<i, j>> of rows with key(i) < key(j): pandas sorts with
\* kind = 'quicksort', which is not stable, so every order of the rows in
\* which no row is followed by a row of a greater key is possible
SortDescending(n, lt) ==
  {p \in Perms(n) : \A i \in 1..(n - 1) : <<p[i], p[i + 1]>> \notin lt}

\* the pairs of rows of the table ordered by net score
NetLess(table) ==
  {ij \in (1..Len(table)) \X (1..Len(table)) :
     FLess(table[ij[1]].net_score, table[ij[2]].net_score)}

\* the pairs of rows of the table ordered by one factor column
ColumnLess(table, column) ==
  {ij \in (1..Len(table)) \X (1..Len(table)) :
     table[ij[1]].val[column] < table[ij[2]].val[column]}

\* gdf[['행정동', '순위험도', '총위험도', '총안전도']], sorted when the box is ticked
RankingRow(table, i) ==
  [index |-> i, name |-> table[i].name, net_score |-> table[i].net_score,
   total_risk |-> table[i].total_risk, total_safety |-> table[i].total_safety]

\* the ticked box sorting ascending
NetRankingsAscending(table, sorted) ==
  IF sorted
  THEN {[k \in 1..Len(table) |-> RankingRow(table, p[k])] :
          p \in SortDescending(Len(table),
                  {<<ij[2], ij[1]>> : ij \in NetLess(table)})}
  ELSE {[k \in 1..Len(table) |-> RankingRow(table, k)]}

NetRankings(table, sorted) ==
  IF sorted
  THEN {[k \in 1..Len(table) |-> RankingRow(table, p[k])] :
          p \in SortDescending(Len(table), NetLess(table))}
  ELSE {[k \in 1..Len(table) |-> RankingRow(table, k)]}

\* the factor table left in load order
FactorRankingsUnsorted(table, column) ==
  {[k \in 1..Len(table) |->
      [index |-> k, name |-> table[k].name, value |-> table[k].val[column]]]}

\* gdf[['행정동', selected_column]].sort_values(by = selected_column, ascending = False)
FactorRankings(table, column) ==
  {[k \in 1..Len(table) |->
      [index |-> p[k], name |-> table[p[k]].name, value |-> table[p[k]].val[column]]] :
     p \in SortDescending(Len(table), ColumnLess(table, column))}

(***************************************************************************)
(* One session                                                             *)
(***************************************************************************)
\* the interactions explored: the sliders that are moved, the positions they
\* are moved to, and the columns that are selected
MovedRisk     == {"nightlife"}
MovedSafety   == {"police"}
SliderInputs  == {SliderMin, SliderMax}
SelectInputs  == {"police", "child_cctv", "other_cctv"}

\* every weight rewritten with the default of .get(factor, 0.1) unless its
\* slider was moved
RewriteWeightsDefault(weights, shown, returned) ==
  Eval([f \in DOMAIN weights |->
          IF returned[f] = shown[f] THEN SliderValue(10) ELSE SliderValue(returned[f])])

\* lines 141-154: every weight is rewritten with what its slider returns; a
\* slider that was not moved returns the float it was given
RewriteWeights(weights, shown, returned) ==
  Eval([f \in DOMAIN weights |->
          IF returned[f] = shown[f] THEN weights[f] ELSE SliderValue(returned[f])])

\* lines 159-262: the totals, the normalized weights, the scores and the two
\* rankings, from the weights rw and sw and the widgets se and sc
Recompute(rw, sw, se, sc) ==
  /\ sort_enabled' = se
  /\ selected_column' = sc
  /\ UNCHANGED <<load_data_cache, files, page>>
  /\ risk_weights' = rw
  /\ safety_weights' = sw
  /\ total_risk_weight' = SumRiskWeights(SessionState')
  /\ total_safety_weight' = SumSafetyWeights(SessionState')
  /\ norm_risk_weights' = Normalize(risk_weights', total_risk_weight')
  /\ norm_safety_weights' = Normalize(safety_weights', total_safety_weight')
  /\ \E scored \in {ScoreTable(load_data_cache, norm_risk_weights', norm_safety_weights')} :
        gdf' = fill_selected(scored, sc)
  /\ display_df' \in NetRankings(gdf', se)
  /\ correlation' = corr(gdf')
  /\ factor_df' \in FactorRankings(gdf', sc)

\* one run of the script, top to bottom, with the widgets at the given
\* values; what another session holds is neither read nor written
Rerun(sr, ss, se, sc) ==
  /\ slider_risk' = sr
  /\ slider_safety' = ss
  /\ UNCHANGED other_session
  /\ Recompute(RewriteWeights(risk_weights, slider_risk, sr),
               RewriteWeights(safety_weights, slider_safety, ss), se, sc)

\* the first run of the script in a session: the table is loaded and cached,
\* the sliders stand at sr and ss, the other widgets at their defaults
FirstRun(table, sr, ss) ==
  /\ load_data_cache = table
  /\ slider_risk = sr
  /\ slider_safety = ss
  /\ risk_weights = Eval([f \in Range(risk_factors) |-> SliderValue(sr[f])])
  /\ safety_weights = Eval([f \in Range(safety_factors) |-> SliderValue(ss[f])])
  /\ sort_enabled = FALSE
  /\ selected_column = selectable_columns[1]
  /\ total_risk_weight = SumRiskWeights(SessionState)
  /\ total_safety_weight = SumSafetyWeights(SessionState)
  /\ norm_risk_weights = Normalize(risk_weights, total_risk_weight)
  /\ norm_safety_weights = Normalize(safety_weights, total_safety_weight)
  /\ \E scored \in {ScoreTable(load_data_cache, norm_risk_weights, norm_safety_weights)} :
        gdf = fill_selected(scored, selected_column)
  /\ display_df \in NetRankings(gdf, sort_enabled)
  /\ correlation = corr(gdf)
  /\ factor_df \in FactorRankings(gdf, selected_column)

\* no second session
NotConnected == [connected |-> FALSE]

\* a run that did not reach the district tabs: nothing is cached for a call
\* that raised, session_state stays empty and no table is shown
NoDashboard(table) ==
  /\ load_data_cache = table
  /\ slider_risk = << >>
  /\ slider_safety = << >>
  /\ risk_weights = << >>
  /\ safety_weights = << >>
  /\ sort_enabled = FALSE
  /\ selected_column = selectable_columns[1]
  /\ total_risk_weight = FZero
  /\ total_safety_weight = FZero
  /\ norm_risk_weights = << >>
  /\ norm_safety_weights = << >>
  /\ gdf = << >>
  /\ display_df = << >>
  /\ correlation = "none"
  /\ factor_df = << >>

\* the first run of the script in a process whose working directory is fs
StartSession(fs, sr, ss) ==
  \E r \in try_load_data(fs.csv, fs.map) :
     /\ files = fs
     /\ page = Page(fs, r)
     /\ other_session = NotConnected
     /\ IF page.district THEN FirstRun(r.table, sr, ss) ELSE NoDashboard(r.table)

\* the directory with every file present and well-formed
Files(csv) ==
  [csv |-> File(CsvColumns, csv), map |-> File(MapColumns, MapFile),
   trend |-> File({}, << >>), reference |-> File({}, << >>)]

\* a new session: the sliders show the initial weights
Init ==
  \E csv \in CsvFiles : StartSession(Files(csv), initial_risk_weights, initial_safety_weights)

\* the user drags one risk slider to another position
MoveRiskSlider(f, v) ==
  /\ page.district
  /\ v # slider_risk[f]
  /\ Rerun([slider_risk EXCEPT ![f] = v], slider_safety, sort_enabled, selected_column)

\* the user drags one safety slider to another position
MoveSafetySlider(f, v) ==
  /\ page.district
  /\ v # slider_safety[f]
  /\ Rerun(slider_risk, [slider_safety EXCEPT ![f] = v], sort_enabled, selected_column)

\* the user ticks or unticks the sort checkbox
ToggleSort ==
  /\ page.district
  /\ Rerun(slider_risk, slider_safety, ~sort_enabled, selected_column)

\* the user picks another column in the selectbox
SelectFactor(c) ==
  /\ page.district
  /\ c # selected_column
  /\ Rerun(slider_risk, slider_safety, sort_enabled, c)

Next ==
  \/ \E f \in MovedRisk, v \in SliderInputs : MoveRiskSlider(f, v)
  \/ \E f \in MovedSafety, v \in SliderInputs : MoveSafetySlider(f, v)
  \/ ToggleSort
  \/ \E c \in SelectInputs : SelectFactor(c)

Spec == Init /\ [][Next]_vars

(***************************************************************************)
(* Sessions over a family of slider settings                               *)
(***************************************************************************)
\* slider settings a session can be in after its sliders were moved: the
\* initial one, every slider at 0, every slider at 0.01, and the sliders at
\* 0.01, 0.02, ... in the order of the factor list
Settings(factors, initial) ==
  { initial,
    [f \in Range(factors) |-> 0],
    [f \in Range(factors) |-> 1],
    [f \in Range(factors) |-> IndexIn(factors, f)] }

RiskSettings == Settings(risk_factors, initial_risk_weights)

SafetySettings == Settings(safety_factors, initial_safety_weights)

\* the positions a slider is moved to
GridInputs == {SliderMin, SliderMin + 1, SliderMax}

\* a session whose sliders stand at one of the settings
InitGrid ==
  \E csv \in {CsvVaried, CsvAlike, CsvFlatCrime}, sr \in RiskSettings, ss \in SafetySettings :
     StartSession(Files(csv), sr, ss)

NextGrid ==
  \/ \E f \in MovedRisk, v \in GridInputs : MoveRiskSlider(f, v)
  \/ \E f \in MovedSafety, v \in GridInputs : MoveSafetySlider(f, v)

SpecGrid == InitGrid /\ [][NextGrid]_vars

(***************************************************************************)
(* Two sessions of one process                                             *)
(***************************************************************************)
\* what belongs to the session at hand: its widgets, its st.session_state,
\* the copy of the table st.cache_data handed to its run, and its page
PrivateState ==
  [connected |-> TRUE, slider_risk |-> slider_risk, slider_safety |-> slider_safety,
   risk_weights |-> risk_weights, safety_weights |-> safety_weights,
   total_risk_weight |-> total_risk_weight, total_safety_weight |-> total_safety_weight,
   norm_risk_weights |-> norm_risk_weights, norm_safety_weights |-> norm_safety_weights,
   sort_enabled |-> sort_enabled, selected_column |-> selected_column,
   gdf |-> gdf, display_df |-> display_df, factor_df |-> factor_df, page |-> page,
   correlation |-> correlation]

\* a new session that takes its weights from what the process last held
SharedWeights(initial, held) == held

\* lines 135-138: the session_state of a new session has no weights, so they
\* are the literals of lines 105-113 of its own run; what the sessions
\* before it hold is not consulted
SessionWeights(initial, held) == initial

\* a browser connects: the session at hand steps aside and the first run of
\* the new session is served from the cache of the process
Connect ==
  /\ page.district
  /\ other_session' = PrivateState
  /\ slider_risk' = SessionWeights(initial_risk_weights, slider_risk)
  /\ slider_safety' = SessionWeights(initial_safety_weights, slider_safety)
  /\ Recompute(Eval([f \in Range(risk_factors) |-> SliderValue(slider_risk'[f])]),
               Eval([f \in Range(safety_factors) |-> SliderValue(slider_safety'[f])]),
               FALSE, selectable_columns[1])

\* the next interaction comes from the other session
Switch ==
  /\ other_session.connected
  /\ other_session' = PrivateState
  /\ slider_risk' = other_session.slider_risk
  /\ slider_safety' = other_session.slider_safety
  /\ risk_weights' = other_session.risk_weights
  /\ safety_weights' = other_session.safety_weights
  /\ total_risk_weight' = other_session.total_risk_weight
  /\ total_safety_weight' = other_session.total_safety_weight
  /\ norm_risk_weights' = other_session.norm_risk_weights
  /\ norm_safety_weights' = other_session.norm_safety_weights
  /\ sort_enabled' = other_session.sort_enabled
  /\ selected_column' = other_session.selected_column
  /\ gdf' = other_session.gdf
  /\ display_df' = other_session.display_df
  /\ factor_df' = other_session.factor_df
  /\ page' = other_session.page
  /\ correlation' = other_session.correlation
  /\ UNCHANGED <<load_data_cache, files>>

NextSessions ==
  \/ \E f \in MovedRisk, v \in SliderInputs : MoveRiskSlider(f, v)
  \/ \E f \in MovedSafety, v \in SliderInputs : MoveSafetySlider(f, v)
  \/ Connect
  \/ Switch

SpecSessions == Init /\ [][NextSessions]_vars

(***************************************************************************)
(* Sessions over the working directories                                   *)
(***************************************************************************)
\* the first run of the script in each of the working directories
InitLoad ==
  \E fs \in FileSystems : StartSession(fs, initial_risk_weights, initial_safety_weights)

NextLoad ==
  \/ ToggleSort
  \/ \E c \in SelectInputs : SelectFactor(c)

SpecLoad == InitLoad /\ [][NextLoad]_vars

(***************************************************************************)
(* Properties                                                              *)
(***************************************************************************)
One == FromInt(1)

\* the binary64 of the literal 1e-9
Tol == [neg |-> FALSE, ex |-> -82, hi |-> 72057594, lo |-> 2545301]

FAbs(a) == [a EXCEPT !.neg = FALSE]

\* |a - b| <= tol, no operand a raised error
Within(a, b, tol) ==
  ~Raised(a) /\ ~Raised(b) /\ ~FLess(tol, FAbs(FSub(a, b)))

\* the normalized weights added up in the order of the factor list
NormSum(norm, factors) == FSum(Eval([i \in 1..Len(factors) |-> norm[factors[i]]]))

AllZero(weights) == \A f \in DOMAIN weights : IsZero(weights[f])

\* C1: in every reachable state every district row of the scored table has
\* net_score = total_risk - total_safety (the binary64 difference, positive
\* exactly when total_risk > total_safety and zero exactly when they are
\* equal), total_risk and total_safety being the weighted sums of the row's
\* factor values under the normalized weights of the same rerun.
C1_NetIsRiskMinusSafety ==
  \A i \in DOMAIN gdf :
     /\ gdf[i].total_risk = Aggregate(load_data_cache[i], norm_risk_weights, risk_factors)
     /\ gdf[i].total_safety = Aggregate(load_data_cache[i], norm_safety_weights, safety_factors)
     /\ gdf[i].net_score = FSub(gdf[i].total_risk, gdf[i].total_safety)
     /\ FPos(gdf[i].net_score) <=> FLess(gdf[i].total_safety, gdf[i].total_risk)
     /\ IsZero(gdf[i].net_score) <=> gdf[i].total_risk = gdf[i].total_safety

\* a slider was moved, one district is net risky and another net safe
C1_Witness ==
  /\ slider_risk # initial_risk_weights
  /\ \E i, j \in DOMAIN gdf :
        /\ FPos(gdf[i].net_score)
        /\ gdf[j].net_score.neg
        /\ FPos(gdf[j].total_risk)

\* C2 as claimed: whenever the raw weights of a mapping have a positive sum,
\* its normalized weights add up to exactly 1.
C2_SumExactlyOne ==
  /\ FPos(total_risk_weight) => NormSum(norm_risk_weights, risk_factors) = One
  /\ FPos(total_safety_weight) => NormSum(norm_safety_weights, safety_factors) = One

\* C2 as amended: whenever the raw weights of a mapping have a positive sum,
\* its normalized weights add up to 1 within the tolerance 1e-9.
C2_SumWithinTolerance ==
  /\ FPos(total_risk_weight) =>
       Within(NormSum(norm_risk_weights, risk_factors), One, Tol)
  /\ FPos(total_safety_weight) =>
       Within(NormSum(norm_safety_weights, safety_factors), One, Tol)

\* a mapping of positive sum whose normalized weights do not add up to 1
C2_Witness ==
  /\ FPos(total_risk_weight)
  /\ slider_risk # initial_risk_weights
  /\ NormSum(norm_risk_weights, risk_factors) # One
  /\ \E f \in DOMAIN norm_risk_weights : FPos(norm_risk_weights[f])

\* C3: when every raw weight of a mapping is 0, no division by the zero sum
\* is made (nothing raises), every normalized weight of the mapping is 0 and
\* the aggregate of that category is 0 for every district, whatever its
\* factor values; the net score is then the other aggregate alone.
C3_ZeroWeights ==
  /\ AllZero(risk_weights) =>
       /\ \A f \in DOMAIN norm_risk_weights : norm_risk_weights[f] = FZero
       /\ \A i \in DOMAIN gdf :
            /\ gdf[i].total_risk = FZero
            /\ ~Raised(gdf[i].total_safety)
            /\ gdf[i].net_score = FNeg(gdf[i].total_safety)
  /\ AllZero(safety_weights) =>
       /\ \A f \in DOMAIN norm_safety_weights : norm_safety_weights[f] = FZero
       /\ \A i \in DOMAIN gdf :
            /\ gdf[i].total_safety = FZero
            /\ ~Raised(gdf[i].total_risk)
            /\ gdf[i].net_score = gdf[i].total_risk

\* every risk slider at 0 while a district has a nonzero risk factor and a
\* positive safety aggregate
C3_Witness ==
  /\ AllZero(risk_weights)
  /\ \E i \in DOMAIN gdf :
        /\ \E f \in Range(risk_factors) : load_data_cache[i].val[f] > 0
        /\ FPos(gdf[i].total_safety)
        /\ gdf[i].net_score.neg

\* the constants c the weights are multiplied by
Scales == {2, 3}

\* the sliders at c times their positions, when that is still on the grid
Scalable(positions, c) == \A f \in DOMAIN positions : c * positions[f] <= 50

Scaled(positions, c) == [f \in DOMAIN positions |-> c * positions[f]]

NormOfWeights(weights, factors) ==
  Normalize(weights, WeightTotal(weights, factors))

\* the weights of sliders at the given positions, normalized
NormAt(positions, factors) ==
  NormOfWeights(Eval([f \in DOMAIN positions |->
                        FDiv(FromInt(positions[f]), FromInt(100))]), factors)

\* the largest factor value of a row
RowMax(row) ==
  CHOOSE v \in 0..MaxVal :
     /\ \E f \in DOMAIN row.val : row.val[f] = v
     /\ \A f \in DOMAIN row.val : row.val[f] <= v

\* two scored tables agree within tol times the largest factor value of each row
ScoresWithin(a, b, tol) ==
  \A i \in DOMAIN a :
     /\ Within(a[i].total_risk, b[i].total_risk, FMulInt(tol, RowMax(a[i])))
     /\ Within(a[i].total_safety, b[i].total_safety, FMulInt(tol, RowMax(a[i])))
     /\ Within(a[i].net_score, b[i].net_score, FMulInt(tol, RowMax(a[i])))

WeightsWithin(a, b, tol) == \A f \in DOMAIN a : Within(a[f], b[f], tol)

\* C4 as claimed: multiplying every raw weight of one mapping by c leaves
\* every normalized weight of the mapping and every district's total_risk,
\* total_safety and net_score unchanged.
C4_ScalingChangesNothing ==
  \A c \in Scales :
     /\ Scalable(slider_risk, c) =>
          /\ NormAt(Scaled(slider_risk, c), risk_factors) = norm_risk_weights
          /\ ScoreTable(load_data_cache, NormAt(Scaled(slider_risk, c), risk_factors),
                        norm_safety_weights) = gdf
     /\ Scalable(slider_safety, c) =>
          /\ NormAt(Scaled(slider_safety, c), safety_factors) = norm_safety_weights
          /\ ScoreTable(load_data_cache, norm_risk_weights,
                        NormAt(Scaled(slider_safety, c), safety_factors)) = gdf

\* C4 as amended: multiplying every raw weight of one mapping by c changes
\* every normalized weight of the mapping by at most 1e-9, and every
\* district's total_risk, total_safety and net_score by at most 1e-9 times
\* the district's largest factor value.
C4_ScalingWithinTolerance ==
  \A c \in Scales :
     /\ Scalable(slider_risk, c) =>
          /\ WeightsWithin(NormAt(Scaled(slider_risk, c), risk_factors),
                           norm_risk_weights, Tol)
          /\ ScoresWithin(ScoreTable(load_data_cache,
                                     NormAt(Scaled(slider_risk, c), risk_factors),
                                     norm_safety_weights), gdf, Tol)
     /\ Scalable(slider_safety, c) =>
          /\ WeightsWithin(NormAt(Scaled(slider_safety, c), safety_factors),
                           norm_safety_weights, Tol)
          /\ ScoresWithin(ScoreTable(load_data_cache, norm_risk_weights,
                                     NormAt(Scaled(slider_safety, c), safety_factors)),
                          gdf, Tol)

\* a mapping of positive sum that can be tripled on the grid, and whose
\* normalized weights the tripling does change
C4_Witness ==
  /\ FPos(total_risk_weight)
  /\ Scalable(slider_risk, 3)
  /\ NormAt(Scaled(slider_risk, 3), risk_factors) # norm_risk_weights
  /\ \E i \in DOMAIN gdf : FPos(gdf[i].total_risk)

\* C5: the two mappings have separate denominators: a step that changes a
\* safety weight and no risk weight leaves the normalized risk weights and
\* every district's total_risk as they were, and a step that changes a risk
\* weight and no safety weight leaves the normalized safety weights and every
\* district's total_safety as they were.
C5_SeparateDenominators ==
  [][ /\ (safety_weights' # safety_weights /\ risk_weights' = risk_weights) =>
           /\ norm_risk_weights' = norm_risk_weights
           /\ \A i \in DOMAIN gdf : gdf'[i].total_risk = gdf[i].total_risk
      /\ (risk_weights' # risk_weights /\ safety_weights' = safety_weights) =>
           /\ norm_safety_weights' = norm_safety_weights
           /\ \A i \in DOMAIN gdf : gdf'[i].total_safety = gdf[i].total_safety
    ]_vars

\* a safety slider was moved while the risk sliders stayed as they were, and
\* a district has a positive total_risk
C5_Witness ==
  /\ slider_safety # initial_safety_weights
  /\ slider_risk = initial_risk_weights
  /\ IsZero(safety_weights["police"])
  /\ \E i \in DOMAIN gdf : FPos(gdf[i].total_risk)

\* C6: in every reachable state the weights are what the sliders show, and
\* the total_risk, total_safety and net_score of every district, in the
\* scored table and in the rows displayed, are those computed from the
\* cached district table and the current weights.
C6_ScoresNeverStale ==
  /\ \A f \in DOMAIN risk_weights :
        risk_weights[f] = FDiv(FromInt(slider_risk[f]), FromInt(100))
  /\ \A f \in DOMAIN safety_weights :
        safety_weights[f] = FDiv(FromInt(slider_safety[f]), FromInt(100))
  /\ gdf = ScoreTable(load_data_cache,
                      NormOfWeights(risk_weights, risk_factors),
                      NormOfWeights(safety_weights, safety_factors))
  /\ \A k \in DOMAIN display_df :
        LET i == display_df[k].index
        IN  /\ display_df[k].net_score = gdf[i].net_score
            /\ display_df[k].total_risk = gdf[i].total_risk
            /\ display_df[k].total_safety = gdf[i].total_safety

\* both mappings were changed, then the box was ticked and a column chosen
C6_Witness ==
  /\ slider_risk # initial_risk_weights
  /\ slider_safety # initial_safety_weights
  /\ sort_enabled
  /\ selected_column # selectable_columns[1]
  /\ \E i \in DOMAIN gdf : ~IsZero(gdf[i].net_score)

\* C7: in every reachable state every weight of both mappings is k / 100 for
\* a whole k from 0 to 50, the position of its slider, and lies in [0, 0.5].
C7_WeightsOnGrid ==
  /\ \A f \in DOMAIN risk_weights :
        /\ slider_risk[f] \in 0..50
        /\ risk_weights[f] = FDiv(FromInt(slider_risk[f]), FromInt(100))
        /\ ~FLess(risk_weights[f], FZero)
        /\ ~FLess(FDiv(One, FromInt(2)), risk_weights[f])
  /\ \A f \in DOMAIN safety_weights :
        /\ slider_safety[f] \in 0..50
        /\ safety_weights[f] = FDiv(FromInt(slider_safety[f]), FromInt(100))
        /\ ~FLess(safety_weights[f], FZero)
        /\ ~FLess(FDiv(One, FromInt(2)), safety_weights[f])

\* one slider was moved to each end of its range
C7_Witness ==
  /\ slider_risk["nightlife"] = 50
  /\ risk_weights["nightlife"] = FDiv(One, FromInt(2))
  /\ slider_safety["police"] = 0
  /\ IsZero(safety_weights["police"])

\* the displayed rows are rows of the scored table, each once
IsRankingOf(rows, table) ==
  /\ DOMAIN rows = DOMAIN table
  /\ \A k \in DOMAIN rows : rows[k].index \in DOMAIN table
  /\ \A k, l \in DOMAIN rows : rows[k].index = rows[l].index => k = l

\* C8: the net-score ranking shows every row of the scored table once; with
\* the box ticked no row's net_score is below the next row's, with the box
\* unticked the rows are in load order.
C8_NetRanking ==
  /\ IsRankingOf(display_df, gdf)
  /\ \A k \in DOMAIN display_df :
        /\ display_df[k].name = gdf[display_df[k].index].name
        /\ display_df[k].net_score = gdf[display_df[k].index].net_score
  /\ sort_enabled =>
        \A k \in 1..(Len(display_df) - 1) :
           ~FLess(display_df[k].net_score, display_df[k + 1].net_score)
  /\ ~sort_enabled => \A k \in DOMAIN display_df : display_df[k].index = k

\* the box is ticked and the sort has moved the rows: the first row shown is
\* not the first loaded, and its net_score is above the last row's
C8_Witness ==
  /\ sort_enabled
  /\ display_df[1].index # 1
  /\ FLess(display_df[Len(display_df)].net_score, display_df[1].net_score)

\* C9 as claimed: with the box ticked, two districts of equal net_score are
\* shown in their load order.
C9_TiesKeepLoadOrder ==
  sort_enabled =>
     \A k, l \in DOMAIN display_df :
        (k < l /\ display_df[k].net_score = display_df[l].net_score)
           => display_df[k].index < display_df[l].index

\* C10 as claimed: the single-factor ranking is descending when the sort box
\* is ticked and in load order otherwise.
C10_FactorRankingFollowsToggle ==
  /\ sort_enabled =>
        \A k \in 1..(Len(factor_df) - 1) : factor_df[k].value >= factor_df[k + 1].value
  /\ ~sort_enabled => \A k \in DOMAIN factor_df : factor_df[k].index = k

\* C10 as amended: the single-factor ranking shows every row of the table
\* once with its value of the selected column, descending by that value,
\* whether the sort box of the net-score ranking is ticked or not.
C10_FactorRankingAlwaysDescending ==
  /\ IsRankingOf(factor_df, gdf)
  /\ \A k \in DOMAIN factor_df :
        /\ factor_df[k].name = gdf[factor_df[k].index].name
        /\ factor_df[k].value = gdf[factor_df[k].index].val[selected_column]
  /\ \A k \in 1..(Len(factor_df) - 1) : factor_df[k].value >= factor_df[k + 1].value

\* the box is unticked and the factor table is not in load order
C10_Witness ==
  /\ ~sort_enabled
  /\ factor_df[1].index # 1
  /\ factor_df[1].value > factor_df[Len(factor_df)].value

\* the CSV and the map are both present with every column the script reads
WellFormed(fs) ==
  /\ fs.csv.exists /\ fs.map.exists
  /\ (UsedColumns \cup {"name"}) \subseteq fs.csv.columns
  /\ "adm_nm" \in fs.map.columns

\* C11: a missing input file yields an error message and no data, the views
\* that need it are skipped and the other views are rendered: without the CSV
\* or the map the district tabs are replaced by an error while the trend view
\* and the reference view are rendered from their own files; without the
\* trend workbook the trend view shows an error and the district tabs are
\* rendered.
C11_MissingFileDegrades ==
  /\ (~files.csv.exists \/ ~files.map.exists) =>
        /\ page.raised = "none"
        /\ LoadDataFileError \in page.errors
        /\ ~page.district /\ gdf = << >>
        /\ page.overview = (IF files.trend.exists THEN "charts" ELSE "error")
        /\ page.reference = (IF files.reference.exists THEN "table" ELSE "error")
  /\ (~files.trend.exists /\ WellFormed(files)) =>
        /\ page.raised = "none"
        /\ TrendFileError \in page.errors
        /\ page.overview = "error"
        /\ page.district

\* C12: an input that lacks a column the script reads (adm_nm of the map, the
\* district name or a factor of the CSV) yields an error message with the
\* district tabs skipped, never an uncaught exception.
C12_MissingColumnDegrades ==
  (files.csv.exists /\ files.map.exists /\ ~WellFormed(files)) =>
     /\ page.raised = "none"
     /\ page.errors \cap {LoadDataFileError, LoadDataKeyError, DashboardError} # {}
     /\ ~page.district

\* the aggregate of a row of the CSV with every missing cell counted as 0
AggregateOfRaw(raw, norm, factors) ==
  FSum([k \in 1..Len(factors) |->
          FMulInt(norm[factors[k]], IF raw.val[factors[k]] = NaN THEN 0 ELSE raw.val[factors[k]])])

\* C13: a cell of the CSV without a value counts as 0: each row of the table
\* has the aggregates of its CSV row with the missing cells replaced by 0,
\* and neither aggregate nor the net score is NaN or an error.
C13_MissingCountsAsZero ==
  \A i \in DOMAIN gdf :
     /\ ~Raised(gdf[i].total_risk) /\ ~Raised(gdf[i].total_safety) /\ ~Raised(gdf[i].net_score)
     /\ \E j \in DOMAIN files.csv.rows :
           /\ files.csv.rows[j].name = gdf[i].name
           /\ gdf[i].total_risk = AggregateOfRaw(files.csv.rows[j], norm_risk_weights, risk_factors)
           /\ gdf[i].total_safety = AggregateOfRaw(files.csv.rows[j], norm_safety_weights, safety_factors)

\* a table is shown whose CSV has a district without a value for a factor of
\* positive weight
C13_Witness ==
  /\ page.district /\ sort_enabled
  /\ \E i \in DOMAIN gdf, j \in DOMAIN files.csv.rows :
        /\ files.csv.rows[j].name = gdf[i].name
        /\ files.csv.rows[j].val["police"] = NaN
        /\ FPos(norm_safety_weights["police"])
        /\ FPos(gdf[i].total_safety)

\* the session at hand has just had its first run: its sliders and weights
\* are the initial ones and its scores are computed from its own normalized
\* weights on the table of the cache
StartsFromInitialWeights ==
  /\ slider_risk' = initial_risk_weights
  /\ slider_safety' = initial_safety_weights
  /\ risk_weights' = [f \in Range(risk_factors) |-> SliderValue(initial_risk_weights[f])]
  /\ safety_weights' = [f \in Range(safety_factors) |-> SliderValue(initial_safety_weights[f])]
  /\ gdf' = ScoreTable(load_data_cache, norm_risk_weights', norm_safety_weights')

\* C14: with two sessions interleaved in one process, an interaction of one
\* session leaves the weights, the scores and the table of the other session
\* as they were, as well as the table held by the cache; a session that
\* connects starts from the initial weights whatever the sessions before it
\* did.
C14_SessionsIsolated ==
  [][/\ load_data_cache' = load_data_cache
     /\ \/ other_session' = other_session
        \/ other_session' = PrivateState /\ PrivateState' = other_session
        \/ other_session' = PrivateState /\ StartsFromInitialWeights]_vars

\* two sessions that have both moved sliders, to different weights
C14_Witness ==
  /\ other_session.connected
  /\ other_session.slider_risk["nightlife"] = SliderMax
  /\ other_session.slider_safety = initial_safety_weights
  /\ slider_risk = initial_risk_weights
  /\ slider_safety["police"] = SliderMin
  /\ gdf # other_session.gdf

\* the columns of a table that come from the files
Loaded(table) ==
  [i \in DOMAIN table |->
     [name |-> table[i].name, key |-> table[i].key, adm_nm |-> table[i].adm_nm,
      val |-> table[i].val, crime |-> table[i].crime]]

\* C15: no interaction changes the loaded district records: across every
\* rerun the table has the same rows in the same order with the same factor
\* values and crime counts, equal to those of the cached table, which stays
\* as it is; only the derived scores may differ.
C15_LoadedRecordsKept ==
  [][/\ load_data_cache' = load_data_cache
     /\ Loaded(gdf') = Loaded(gdf)
     /\ Loaded(gdf') = Loaded(load_data_cache)]_vars

\* a factor with a zero in its column is selected, the sort box is ticked and
\* sliders were moved so that the scores differ from the initial ones
C15_Witness ==
  /\ selected_column = "other_cctv"
  /\ sort_enabled
  /\ slider_risk["nightlife"] = SliderMax
  /\ \E i \in DOMAIN gdf : gdf[i].val["child_cctv"] > 0
  /\ \E i \in DOMAIN gdf : gdf[i].val[selected_column] = 0

\* C16: the district name is a unique key of the scored table: no two rows
\* carry the same name, whatever the map and the CSV are.
C16_NameIsUniqueKey ==
  \A i, j \in DOMAIN gdf : gdf[i].name = gdf[j].name => i = j

\* the names of the rows of a table
Names(table) == {table[i].name : i \in DOMAIN table}

\* the join keys of the features of the map
MapKeys(map) == {LastToken(map[i].adm_nm) : i \in DOMAIN map}

\* C17: when the map and the CSV load, the table has a row for exactly the
\* names that are the join key of a feature of the map and the name of a row
\* of the CSV other than the aggregate row; no row of the table carries the
\* aggregate label, also when a feature of the map has that label as its key.
C17_JoinedDistrictsOnly ==
  (files.csv.exists /\ files.map.exists /\ "name" \in files.csv.columns
     /\ "adm_nm" \in files.map.columns) =>
     /\ Names(load_data_cache)
          = (MapKeys(files.map.rows) \cap Names(files.csv.rows)) \ {SubtotalLabel}
     /\ page.district => Names(gdf) = Names(load_data_cache)
     /\ SubtotalLabel \notin Names(load_data_cache) \cup Names(gdf)

\* the table of a map with a feature whose key is the aggregate label and of a
\* CSV with the aggregate row is shown, sorted
C17_Witness ==
  /\ SubtotalLabel \in MapKeys(files.map.rows)
  /\ SubtotalLabel \in Names(files.csv.rows)
  /\ page.district /\ sort_enabled
  /\ Len(gdf) = NDistricts - 1

\* C18: when the net score is the same in every district, or the crime count
\* is, the coefficient shown is NaN, and the run renders the panel and
\* reaches its end.
C18_ZeroVarianceIsNaN ==
  (page.district
     /\ \/ \A i, j \in DOMAIN gdf : gdf[i].net_score = gdf[j].net_score
        \/ \A i, j \in DOMAIN gdf : gdf[i].crime = gdf[j].crime) =>
     /\ correlation = "nan"
     /\ page.raised = "none"

\* C19: across every rerun the weight of every factor whose slider was not
\* moved keeps its previous value, in both mappings, and the keys of the two
\* mappings are the 7 risk factors and the 8 safety factors.
C19_OtherWeightsKept ==
  [][/\ \A f \in Range(risk_factors) :
           slider_risk'[f] = slider_risk[f] => risk_weights'[f] = risk_weights[f]
     /\ \A f \in Range(safety_factors) :
           slider_safety'[f] = slider_safety[f] => safety_weights'[f] = safety_weights[f]
     /\ DOMAIN risk_weights' = Range(risk_factors)
     /\ DOMAIN safety_weights' = Range(safety_factors)
     /\ Cardinality(DOMAIN risk_weights') = 7
     /\ Cardinality(DOMAIN safety_weights') = 8]_vars

\* one slider of each mapping was moved and the other weights are the
\* initial ones
C19_Witness ==
  /\ slider_risk["nightlife"] = SliderMax
  /\ slider_safety["police"] = SliderMin
  /\ risk_weights["nightlife"] = SliderValue(SliderMax)
  /\ \A f \in Range(risk_factors) \ {"nightlife"} :
        risk_weights[f] = SliderValue(initial_risk_weights[f])
  /\ \A f \in Range(safety_factors) \ {"police"} :
        safety_weights[f] = SliderValue(initial_safety_weights[f])

==========================================================================
